---- MODULE Spec2Model ----
(***************************************************************************)
(* Model of the gr0g BLE bridge (src/app.py): the GATT characteristic      *)
(* handlers (ReadValue / WriteValue of every characteristic class) and    *)
(* the startup sequence of main() with its asynchronous registration      *)
(* callbacks.                                                              *)
(*                                                                         *)
(* Conventions                                                             *)
(*   - a byte string is a sequence of numbers 0..255;                      *)
(*   - a text string that the code inspects character by character is a   *)
(*     sequence of code points (ON == <<79, 78>>);                         *)
(*   - a Python float is kept as a record: [half |-> n] stands for the     *)
(*     double n/2 (21.5 is [half |-> 43]); a double that is not a small    *)
(*     multiple of 1/2 is [raw |-> its 8 bytes, little-endian];           *)
(*   - an exception that leaves a handler is the "fault" of the operation: *)
(*     the D-Bus error name for the DBusException subclasses of lines     *)
(*     59-76, the Python class name for every other exception.             *)
(***************************************************************************)
EXTENDS Integers, Sequences, FiniteSets, TLC

VARIABLES
    value,      \* self.value of every characteristic class
    lastValue,  \* LightControlCharacteristic.lastValue
    op,         \* the last ReadValue / WriteValue call and its outcome
    pc,         \* position of main()
    adapter,    \* result of find_adapter(bus)
    adReg,      \* state of the RegisterAdvertisement call
    appReg,     \* state of the RegisterApplication call
    agent,      \* what was asked of the AgentManager1
    critical,   \* messages logged with logger.critical
    trace       \* bootstrap states entered so far, in order

handlerVars == <<value, lastValue, op>>
bootVars == <<pc, adapter, adReg, appReg, agent, critical, trace>>
vars == <<value, lastValue, op, pc, adapter, adReg, appReg, agent, critical,
          trace>>

(***************************************************************************)
(* Names                                                                   *)
(***************************************************************************)
FanControl == "FanControl"
Light == "Light"
LightControl == "LightControl"
Temperature == "Temperature"
TemperatureSetpoint == "TemperatureSetpoint"
Humidity == "Humidity"
HumiditySetpoint == "HumiditySetpoint"

\* Every characteristic class of the file.
Characteristics ==
    {FanControl, Light, LightControl, Temperature, TemperatureSetpoint,
     Humidity, HumiditySetpoint}

\* The characteristics Gr0GS1Service adds (the fan one is commented out).
Gr0GS1Service ==
    {Light, LightControl, Temperature, TemperatureSetpoint, Humidity,
     HumiditySetpoint}

\* The characteristics that define WriteValue.
Writable == {FanControl, LightControl, TemperatureSetpoint, HumiditySetpoint}

\* Light declared with the flags of a writable characteristic (mutant of
\* Flags).
Flags_light_writable ==
    [a \in Characteristics |->
        IF a \in {Temperature, Humidity} THEN {"read"} ELSE {"read", "write"}]

\* The flags each class passes to Characteristic.__init__.
Flags ==
    [a \in Characteristics |->
        IF a \in {Light, Temperature, Humidity} THEN {"read"} ELSE {"read", "write"}]

\* The characteristics whose ReadValue packs a status field with "d".
FloatRead == {Light, Temperature, TemperatureSetpoint, Humidity, HumiditySetpoint}

\* D-Bus error names of the exception classes.
InvalidArgs == "org.freedesktop.DBus.Error.InvalidArgs"
NotSupported == "org.bluez.Error.NotSupported"
NotPermitted == "org.bluez.Error.NotPermitted"
InvalidValueLength == "org.bluez.Error.InvalidValueLength"
Failed == "org.bluez.Error.Failed"

\* Text constants, as code points.
ON == <<79, 78>>
OFF == <<79, 70, 70>>
UNKNOWN == <<85, 78, 75, 78, 79, 87, 78>>

(***************************************************************************)
(* Pure helpers: text                                                      *)
(***************************************************************************)
RECURSIVE Utf8Decode(_)
\* bytes(value).decode("utf-8"): one- and two-byte sequences are decoded,
\* every other lead byte is reported as a decoding error (the payloads
\* written below contain no three- or four-byte sequence).
Utf8Decode(bs) ==
    IF bs = <<>> THEN [ok |-> TRUE, s |-> <<>>]
    ELSE IF bs[1] < 128
         THEN LET r == Utf8Decode(Tail(bs))
              IN  [ok |-> r.ok, s |-> <<bs[1]>> \o r.s]
    ELSE IF bs[1] >= 194 /\ bs[1] <= 223 /\ Len(bs) >= 2
            /\ bs[2] >= 128 /\ bs[2] <= 191
         THEN LET r == Utf8Decode(Tail(Tail(bs)))
              IN  [ok |-> r.ok,
                   s |-> <<(bs[1] - 192) * 64 + (bs[2] - 128)>> \o r.s]
    ELSE [ok |-> FALSE, s |-> <<>>]

RECURSIVE Utf8Encode(_)
\* bytearray(text, encoding="utf8") for code points below 2048.
Utf8Encode(s) ==
    IF s = <<>> THEN <<>>
    ELSE IF s[1] < 128 THEN <<s[1]>> \o Utf8Encode(Tail(s))
    ELSE <<192 + (s[1] \div 64), 128 + (s[1] % 64)>> \o Utf8Encode(Tail(s))

\* str.lower() on ASCII letters.
Lower(s) == [i \in 1..Len(s) |-> IF s[i] >= 65 /\ s[i] <= 90 THEN s[i] + 32 ELSE s[i]]

\* str.upper() on ASCII letters.
Upper(s) == [i \in 1..Len(s) |-> IF s[i] >= 97 /\ s[i] <= 122 THEN s[i] - 32 ELSE s[i]]

\* State.has_value under a case-folding bug (mutant of has_value).
has_value_fold(cmd) == Upper(cmd) \in {ON, OFF, UNKNOWN}

\* FanControlCharacteristic.State.has_value: membership in the
\* value-to-member map of the enum, whose keys are the exact values.
has_value(cmd) == cmd \in {ON, OFF, UNKNOWN}

IsSpace(c) == c = 32 \/ (c >= 9 /\ c <= 13)
IsDigit(c) == c >= 48 /\ c <= 57

RECURSIVE LStrip(_)
LStrip(s) == IF s # <<>> /\ IsSpace(s[1]) THEN LStrip(Tail(s)) ELSE s

RECURSIVE RStrip(_)
RStrip(s) ==
    IF s # <<>> /\ IsSpace(s[Len(s)]) THEN RStrip(SubSeq(s, 1, Len(s) - 1)) ELSE s

RECURSIVE DigitsValue(_)
\* Value of a string of decimal digits.
DigitsValue(s) ==
    IF s = <<>> THEN 0
    ELSE DigitsValue(SubSeq(s, 1, Len(s) - 1)) * 10 + (s[Len(s)] - 48)

\* int(svalue): surrounding white space is stripped, one sign is allowed,
\* the rest must be a non-empty run of decimal digits; anything else is a
\* ValueError (digit-group underscores do not occur in the payloads below).
ParseInt(s) ==
    LET t == RStrip(LStrip(s))
        signed == t # <<>> /\ t[1] \in {43, 45}
        d == IF signed THEN Tail(t) ELSE t
    IN  IF d = <<>> \/ \E i \in 1..Len(d) : ~IsDigit(d[i])
        THEN [ok |-> FALSE, i |-> 0]
        ELSE [ok |-> TRUE,
              i |-> IF signed /\ t[1] = 45 THEN 0 - DigitsValue(d) ELSE DigitsValue(d)]

(***************************************************************************)
(* Pure helpers: struct                                                    *)
(***************************************************************************)
Reverse(s) == [i \in 1..Len(s) |-> s[Len(s) + 1 - i]]

\* Native order: the little-endian image, reversed on a big-endian machine.
Native(order, le) == IF order = "little" THEN le ELSE Reverse(le)

Pow2(k) == CASE k = 0 -> 1 [] k = 1 -> 2 [] k = 2 -> 4 [] k = 3 -> 8
             [] k = 4 -> 16 [] k = 5 -> 32 [] k = 6 -> 64 [] k = 7 -> 128
             [] k = 8 -> 256 [] k = 9 -> 512 [] k = 10 -> 1024
             [] k = 11 -> 2048 [] k = 12 -> 4096

\* floor(log2(m)) for 1 <= m < 8192
Log2(m) == CHOOSE p \in 0..12 : Pow2(p) <= m /\ m < 2 * Pow2(p)

Abs(n) == IF n < 0 THEN 0 - n ELSE n

\* The double n/2.
Dbl(n) == [half |-> n]

\* IEEE-754 binary64 image of the double n/2, least significant byte
\* first.  With m = |n| = 2^p + f the biased exponent is 1023 + p - 1 and
\* the fraction is f * 2^(52-p); its top twelve bits f * 2^(12-p) fall in
\* bytes 6 and 5, all lower bytes are zero.
DoubleLE(n) ==
    IF n = 0 THEN <<0, 0, 0, 0, 0, 0, 0, 0>>
    ELSE LET m == Abs(n)
             p == Log2(m)
             e == 1022 + p
             frac12 == (m - Pow2(p)) * Pow2(12 - p)
             sign == IF n < 0 THEN 128 ELSE 0
         IN  <<0, 0, 0, 0, 0, frac12 % 256, (e % 16) * 16 + (frac12 \div 256),
               sign + (e \div 16)>>

\* struct.pack("d", n/2)
pack_d(order, n) == Native(order, DoubleLE(n))

\* The double held by eight little-endian bytes.
DoubleOfLE(le) ==
    LET e == (le[8] % 128) * 16 + (le[7] \div 16)
        frac12 == (le[7] % 16) * 256 + le[6]
        neg == le[8] >= 128
        lowZero == \A i \in 1..5 : le[i] = 0
        p == e - 1022
    IN  IF lowZero /\ e = 0 /\ frac12 = 0 THEN Dbl(0)
        ELSE IF lowZero /\ p >= 0 /\ p <= 12 /\ frac12 % Pow2(12 - p) = 0
             THEN LET m == Pow2(p) + (frac12 \div Pow2(12 - p))
                  IN  Dbl(IF neg THEN 0 - m ELSE m)
        ELSE [raw |-> le]

\* The payload unpacked in network order, "!d" (mutant of unpack_d).
unpack_d_network(order, bs) ==
    IF Len(bs) # 8 THEN [ok |-> FALSE, v |-> Dbl(0)]
    ELSE [ok |-> TRUE, v |-> DoubleOfLE(Reverse(bs))]

\* struct.unpack("d", cmd)[0]; struct.error unless cmd has 8 bytes.
unpack_d(order, bs) ==
    IF Len(bs) # 8 THEN [ok |-> FALSE, v |-> Dbl(0)]
    ELSE [ok |-> TRUE, v |-> DoubleOfLE(Native(order, bs))]

\* struct.unpack("i", cmd)[0]: a signed 32-bit integer; struct.error
\* unless cmd has 4 bytes.
unpack_i(order, bs) ==
    IF Len(bs) # 4 THEN [ok |-> FALSE, v |-> 0]
    ELSE LET le == Native(order, bs)
             top == IF le[4] >= 128 THEN le[4] - 256 ELSE le[4]
         IN  [ok |-> TRUE,
              v |-> top * 16777216 + le[3] * 65536 + le[2] * 256 + le[1]]

(***************************************************************************)
(* Inputs                                                                  *)
(***************************************************************************)
\* sys.byteorder of the machines the bridge runs on (x86 and ARM Linux).
ByteOrder == "little"

\* Outcome of one backend call: it returns, or it raises a transport error.
BackendOutcomes == {"ok", "fail"}

\* Values the backend reports for each status field, as doubles n/2:
\* 42.0 and 21.5 for light, 21.5 for temperature, 21.5 and 22.0 for the
\* temperature setpoint, 55.0 for humidity, 60.0 for its setpoint.
StatusValues ==
    [light |-> {84, 43}, temperature |-> {43}, temperature_setpoint |-> {43, 44},
     humidity |-> {110}, humidity_setpoint |-> {120}]

\* The status field each ReadValue extracts.
StatusField ==
    [Light |-> "light", Temperature |-> "temperature",
     TemperatureSetpoint |-> "temperature_setpoint", Humidity |-> "humidity",
     HumiditySetpoint |-> "humidity_setpoint"]

\* Values of the "fan" field of the REST status.
FanTexts == {ON, OFF}

\* Write payloads: "ON", "OFF", "UNKNOWN", "on", "Off", "HI", and a byte that
\* is no UTF-8.
FanPayloads == {ON, OFF, UNKNOWN, <<111, 110>>, <<79, 102, 102>>, <<72, 73>>, <<255>>}

\* Write payloads: "0", "1", "2", "3", "a", " 1" and the empty payload.
LightControlPayloads == {<<48>>, <<49>>, <<50>>, <<51>>, <<97>>, <<32, 49>>, <<>>}

\* Write payloads: the doubles 21.5 and 22.0, eight bytes that hold another
\* double, the 4-byte float 21.5, nine bytes, and the empty payload.
TemperatureSetpointPayloads ==
    {pack_d(ByteOrder, 43), pack_d(ByteOrder, 44), <<1, 2, 3, 4, 5, 6, 7, 8>>,
     <<0, 0, 172, 65>>, <<0, 0, 0, 0, 0, 128, 53, 64, 0>>, <<>>}

\* Write payloads: the 4-byte integers 60 and -1, the 8 bytes of
\* the double 60.0, and one byte.
HumiditySetpointPayloads ==
    {<<60, 0, 0, 0>>, <<255, 255, 255, 255>>, pack_d(ByteOrder, 120), <<60>>}

\* Write payload tried on the characteristics without a write flag: the
\* double 21.5.
ReadOnlyPayloads == {pack_d(ByteOrder, 43)}

(***************************************************************************)
(* The record of one handler call                                          *)
(***************************************************************************)
NoOp ==
    [attr |-> "none", kind |-> "none", payload |-> <<>>, backend |-> "none",
     fault |-> "none", ret |-> <<>>, reported |-> <<>>, calls |-> <<>>]

\* attr.kind was called with payload; the backend call (if any) ended as
\* backend and reported `reported`; the handler raised fault or returned
\* ret; calls are the backend calls it made.
Op(a, k, p, be, f, r, rep, c) ==
    [attr |-> a, kind |-> k, payload |-> p, backend |-> be, fault |-> f,
     ret |-> r, reported |-> rep, calls |-> c]

\* remote_object.status() / requests.get(... status)
StatusCall(via) == [call |-> "status", via |-> via]

\* remote_object.cmd(data) / requests.post(..., json=data)
CmdCall(via, data) == [call |-> "cmd", via |-> via, data |-> data]

(***************************************************************************)
(* Characteristic handlers                                                 *)
(***************************************************************************)
\* The handler leaves every field of every object as it was.
NoChange == UNCHANGED <<value, lastValue>>

\* FanControlCharacteristic.ReadValue.  Whether requests.get returns or
\* raises is left open (be), as for every backend call.  In the except branch
\* bytearray(self.State.unknown, encoding="utf8") is given an Enum member,
\* not a str: it raises TypeError before self.value is assigned.
FanControlReadValue ==
    \E be \in BackendOutcomes, fan \in FanTexts :
        /\ IF be = "ok"
           THEN /\ value' = [value EXCEPT ![FanControl] = Utf8Encode(fan)]
                /\ op' = Op(FanControl, "read", <<>>, be, "none", Utf8Encode(fan),
                            <<fan>>, <<StatusCall("rest")>>)
           ELSE /\ UNCHANGED value
                /\ op' = Op(FanControl, "read", <<>>, be, "TypeError", <<>>, <<>>,
                            <<StatusCall("rest")>>)
        /\ UNCHANGED lastValue
        /\ UNCHANGED bootVars

\* FanControlCharacteristic.WriteValue.  `except Exceptions` names nothing:
\* when requests.post raises, evaluating the except clause raises NameError.
FanControlWriteValue ==
    \E payload \in FanPayloads, be \in BackendOutcomes :
        LET d == Utf8Decode(payload)
            data == [cmd |-> Lower(d.s)]
        IN  /\ IF ~d.ok
               THEN /\ op' = Op(FanControl, "write", payload, "none",
                                "UnicodeDecodeError", <<>>, <<>>, <<>>)
                    /\ NoChange
               ELSE IF has_value(d.s)
               THEN IF be = "ok"
                    THEN /\ value' = [value EXCEPT ![FanControl] = payload]
                         /\ UNCHANGED lastValue
                         /\ op' = Op(FanControl, "write", payload, be, "none",
                                     <<>>, <<>>, <<CmdCall("rest", data)>>)
                    ELSE /\ NoChange
                         /\ op' = Op(FanControl, "write", payload, be, "NameError",
                                     <<>>, <<>>, <<CmdCall("rest", data)>>)
               ELSE /\ op' = Op(FanControl, "write", payload, "none", NotPermitted,
                                <<>>, <<>>, <<>>)
                    /\ NoChange
            /\ UNCHANGED bootVars

\* ReadValue that keeps a value once it has one and calls the backend only
\* while self.value is empty (mutant of StatusReadValue).
StatusReadValue_cached(a) ==
    \E be \in BackendOutcomes, n \in StatusValues[StatusField[a]] :
        /\ IF value[a] # <<>>
           THEN /\ UNCHANGED value
                /\ op' = Op(a, "read", <<>>, be, "none", value[a], <<Dbl(n)>>, <<>>)
           ELSE IF be = "ok"
           THEN /\ value' = [value EXCEPT ![a] = pack_d(ByteOrder, n)]
                /\ op' = Op(a, "read", <<>>, be, "none", pack_d(ByteOrder, n),
                            <<Dbl(n)>>, <<StatusCall("rpc")>>)
           ELSE /\ UNCHANGED value
                /\ op' = Op(a, "read", <<>>, be, "none", value[a], <<>>,
                            <<StatusCall("rpc")>>)
        /\ UNCHANGED lastValue
        /\ UNCHANGED bootVars

\* ReadValue of the five characteristics that pack one status field:
\* self.value = bytearray(struct.pack("d", float(status[field]))), and on
\* any exception the old self.value is returned.
StatusReadValue(a) ==
    \E be \in BackendOutcomes, n \in StatusValues[StatusField[a]] :
        /\ IF be = "ok"
           THEN /\ value' = [value EXCEPT ![a] = pack_d(ByteOrder, n)]
                /\ op' = Op(a, "read", <<>>, be, "none", pack_d(ByteOrder, n),
                            <<Dbl(n)>>, <<StatusCall("rpc")>>)
           ELSE /\ UNCHANGED value
                /\ op' = Op(a, "read", <<>>, be, "none", value[a], <<>>,
                            <<StatusCall("rpc")>>)
        /\ UNCHANGED lastValue
        /\ UNCHANGED bootVars

LightReadValue == StatusReadValue(Light)

TemperatureReadValue == StatusReadValue(Temperature)

TemperatureSetpointReadValue == StatusReadValue(TemperatureSetpoint)

HumidityReadValue == StatusReadValue(Humidity)

\* ReadValue of the humidity setpoint that stores its result in the
\* temperature setpoint (mutant of HumiditySetpointReadValue).
HumiditySetpointReadValue_other_field ==
    \E be \in BackendOutcomes, n \in StatusValues[StatusField[HumiditySetpoint]] :
        /\ IF be = "ok"
           THEN /\ value' = [value EXCEPT ![TemperatureSetpoint] = pack_d(ByteOrder, n)]
                /\ op' = Op(HumiditySetpoint, "read", <<>>, be, "none",
                            pack_d(ByteOrder, n), <<Dbl(n)>>, <<StatusCall("rpc")>>)
           ELSE /\ UNCHANGED value
                /\ op' = Op(HumiditySetpoint, "read", <<>>, be, "none",
                            value[HumiditySetpoint], <<>>, <<StatusCall("rpc")>>)
        /\ UNCHANGED lastValue
        /\ UNCHANGED bootVars

HumiditySetpointReadValue == StatusReadValue(HumiditySetpoint)

\* ReadValue that returns self.value as it is, like the other classes do on
\* a failure (mutant of LightControlReadValue).
LightControlReadValue_stale ==
    /\ op' = Op(LightControl, "read", <<>>, "none", "none", value[LightControl],
                <<>>, <<>>)
    /\ NoChange
    /\ UNCHANGED bootVars

\* LightControlCharacteristic.ReadValue: no backend call.
LightControlReadValue ==
    /\ value' = [value EXCEPT ![LightControl] = <<lastValue>>]
    /\ op' = Op(LightControl, "read", <<>>, "none", "none", <<lastValue>>, <<>>, <<>>)
    /\ UNCHANGED lastValue
    /\ UNCHANGED bootVars

\* WriteValue with the assignment of lastValue placed before the range check
\* (mutant of LightControlWriteValue).
LightControlWriteValue_assign_first ==
    \E payload \in LightControlPayloads, be \in BackendOutcomes :
        LET parsed == ParseInt(payload)
            ivalue == parsed.i
            data == [cmd |-> "setlight", state |-> Lower(payload)]
        IN  /\ IF ~parsed.ok
               THEN /\ op' = Op(LightControl, "write", payload, "none", "ValueError",
                                <<>>, <<>>, <<>>)
                    /\ NoChange
               ELSE /\ lastValue' = ivalue
                    /\ UNCHANGED value
                    /\ IF ivalue = 0 \/ ivalue = 1 \/ ivalue = 2
                       THEN op' = Op(LightControl, "write", payload, be,
                                     IF be = "ok" THEN "none" ELSE "NameError",
                                     <<>>, <<>>, <<CmdCall("rpc", data)>>)
                       ELSE op' = Op(LightControl, "write", payload, "none",
                                     "NameError", <<>>, <<>>, <<>>)
            /\ UNCHANGED bootVars

\* LightControlCharacteristic.WriteValue.  svalue is the payload read as
\* code points (chr of every byte).  The else branch formats {cmd}, a name
\* this method never binds: NameError is raised before the
\* `raise NotPermittedException` line is reached.  `except Exceptions`
\* raises NameError when remote_object.cmd raises.
LightControlWriteValue ==
    \E payload \in LightControlPayloads, be \in BackendOutcomes :
        LET svalue == payload
            parsed == ParseInt(svalue)
            ivalue == parsed.i
            data == [cmd |-> "setlight", state |-> Lower(svalue)]
        IN  /\ IF ~parsed.ok
               THEN /\ op' = Op(LightControl, "write", payload, "none", "ValueError",
                                <<>>, <<>>, <<>>)
                    /\ NoChange
               ELSE IF ivalue = 0 \/ ivalue = 1 \/ ivalue = 2
               THEN IF be = "ok"
                    THEN /\ lastValue' = ivalue
                         /\ UNCHANGED value
                         /\ op' = Op(LightControl, "write", payload, be, "none",
                                     <<>>, <<>>, <<CmdCall("rpc", data)>>)
                    ELSE /\ NoChange
                         /\ op' = Op(LightControl, "write", payload, be, "NameError",
                                     <<>>, <<>>, <<CmdCall("rpc", data)>>)
               ELSE /\ op' = Op(LightControl, "write", payload, "none", "NameError",
                                <<>>, <<>>, <<>>)
                    /\ NoChange
            /\ UNCHANGED bootVars

\* WriteValue that submits the command a second time when the first
\* submission raises (mutant of TemperatureSetpointWriteValue).
TemperatureSetpointWriteValue_retry ==
    \E payload \in TemperatureSetpointPayloads, be \in BackendOutcomes :
        LET u == unpack_d(ByteOrder, payload)
            data == [cmd |-> "temperature_setpoint", value |-> u.v]
        IN  /\ IF ~u.ok
               THEN op' = Op(TemperatureSetpoint, "write", payload, "none",
                             "struct.error", <<>>, <<>>, <<>>)
               ELSE IF be = "ok"
               THEN op' = Op(TemperatureSetpoint, "write", payload, be, "none",
                             <<>>, <<>>, <<CmdCall("rpc", data)>>)
               ELSE op' = Op(TemperatureSetpoint, "write", payload, be, "NameError",
                             <<>>, <<>>, <<CmdCall("rpc", data), CmdCall("rpc", data)>>)
            /\ NoChange
            /\ UNCHANGED bootVars

\* TemperatureSetpointCharacteristic.WriteValue: struct.unpack raises
\* struct.error while the command is built; self.value is never assigned.
TemperatureSetpointWriteValue ==
    \E payload \in TemperatureSetpointPayloads, be \in BackendOutcomes :
        LET u == unpack_d(ByteOrder, payload)
            data == [cmd |-> "temperature_setpoint", value |-> u.v]
        IN  /\ IF ~u.ok
               THEN op' = Op(TemperatureSetpoint, "write", payload, "none",
                             "struct.error", <<>>, <<>>, <<>>)
               ELSE op' = Op(TemperatureSetpoint, "write", payload, be,
                             IF be = "ok" THEN "none" ELSE "NameError",
                             <<>>, <<>>, <<CmdCall("rpc", data)>>)
            /\ NoChange
            /\ UNCHANGED bootVars

\* WriteValue that unpacks with "d", as the temperature setpoint does
\* (mutant of HumiditySetpointWriteValue).
HumiditySetpointWriteValue_double ==
    \E payload \in HumiditySetpointPayloads, be \in BackendOutcomes :
        LET u == unpack_d(ByteOrder, payload)
            data == [cmd |-> "humidity_setpoint", value |-> u.v]
        IN  /\ IF ~u.ok
               THEN op' = Op(HumiditySetpoint, "write", payload, "none",
                             "struct.error", <<>>, <<>>, <<>>)
               ELSE op' = Op(HumiditySetpoint, "write", payload, be,
                             IF be = "ok" THEN "none" ELSE "NameError",
                             <<>>, <<>>, <<CmdCall("rpc", data)>>)
            /\ NoChange
            /\ UNCHANGED bootVars

\* HumiditySetpointCharacteristic.WriteValue: the payload is unpacked with
\* "i" (4 bytes); self.value is never assigned.
HumiditySetpointWriteValue ==
    \E payload \in HumiditySetpointPayloads, be \in BackendOutcomes :
        LET u == unpack_i(ByteOrder, payload)
            data == [cmd |-> "humidity_setpoint", value |-> u.v]
        IN  /\ IF ~u.ok
               THEN op' = Op(HumiditySetpoint, "write", payload, "none",
                             "struct.error", <<>>, <<>>, <<>>)
               ELSE op' = Op(HumiditySetpoint, "write", payload, be,
                             IF be = "ok" THEN "none" ELSE "NameError",
                             <<>>, <<>>, <<CmdCall("rpc", data)>>)
            /\ NoChange
            /\ UNCHANGED bootVars

\* A Write request on a characteristic declared without the "write" flag.
\* Such a characteristic has no write entry point: the request is refused
\* by the access mode, no handler of the bridge runs.  (The fault name is
\* not fixed by the specification; no property depends on it.)
ReadOnlyWriteValue ==
    \E a \in Characteristics, payload \in ReadOnlyPayloads :
        /\ "write" \notin Flags[a]
        /\ op' = Op(a, "write", payload, "none", NotSupported, <<>>, <<>>, <<>>)
        /\ NoChange
        /\ UNCHANGED bootVars

(***************************************************************************)
(* main() and the registration callbacks                                   *)
(***************************************************************************)
\* logger.critical(msg)
LogCritical(msg) == critical' = critical \cup {msg}

\* main() proceeds from position `from` to position `to`, entering the
\* bootstrap state `entered`.
Step(from, to, entered) ==
    /\ pc = from
    /\ pc' = to
    /\ trace' = Append(trace, entered)

\* main() without the return of line 429 (mutant of FindAdapter).
FindAdapter_no_return ==
    /\ pc = "start"
    /\ \E a \in {"found", "none"} :
        /\ adapter' = a
        /\ pc' = "power"
        /\ IF a = "none"
           THEN /\ LogCritical("GattManager1 interface not found")
                /\ UNCHANGED trace
           ELSE /\ trace' = Append(trace, "AdapterFound")
                /\ UNCHANGED critical
    /\ UNCHANGED <<adReg, appReg, agent>>
    /\ UNCHANGED handlerVars

\* adapter = find_adapter(bus); without an adapter main() logs and returns.
FindAdapter ==
    /\ pc = "start"
    /\ \E a \in {"found", "none"} :
        /\ adapter' = a
        /\ IF a = "none"
           THEN /\ LogCritical("GattManager1 interface not found")
                /\ pc' = "returned"
                /\ UNCHANGED trace
           ELSE /\ pc' = "power"
                /\ trace' = Append(trace, "AdapterFound")
                /\ UNCHANGED critical
    /\ UNCHANGED <<adReg, appReg, agent>>
    /\ UNCHANGED handlerVars

\* adapter_props.Set("org.bluez.Adapter1", "Powered", True), then the
\* construction of the advertisement, the agent, the application with its
\* service, and the main loop.
PowerOn ==
    /\ Step("power", "register_agent", "AdapterPowered")
    /\ UNCHANGED <<adapter, adReg, appReg, agent, critical>>
    /\ UNCHANGED handlerVars

\* agent_manager.RegisterAgent(AGENT_PATH, "NoInputNoOutput")
RegisterAgent ==
    /\ Step("register_agent", "register_ad", "AgentRegistered")
    /\ agent' = "registered"
    /\ UNCHANGED <<adapter, adReg, appReg, critical>>
    /\ UNCHANGED handlerVars

\* ad_manager.RegisterAdvertisement(..., reply_handler, error_handler):
\* the call is sent, the reply is handled later by the main loop.
RegisterAdvertisement ==
    /\ Step("register_ad", "register_app", "AdvertisementRegistering")
    /\ adReg' = "pending"
    /\ UNCHANGED <<adapter, appReg, agent, critical>>
    /\ UNCHANGED handlerVars

\* service_manager.RegisterApplication(..., reply_handler, error_handler)
RegisterApplication ==
    /\ Step("register_app", "request_default_agent", "ApplicationRegistering")
    /\ appReg' = "pending"
    /\ UNCHANGED <<adapter, adReg, agent, critical>>
    /\ UNCHANGED handlerVars

\* agent_manager.RequestDefaultAgent(AGENT_PATH)
RequestDefaultAgent ==
    /\ Step("request_default_agent", "run", "DefaultAgentRequested")
    /\ agent' = "default"
    /\ UNCHANGED <<adapter, adReg, appReg, critical>>
    /\ UNCHANGED handlerVars

\* A blocking D-Bus call of main() (Set, RegisterAgent, RequestDefaultAgent)
\* raises DBusException: main() is left through the exception.
SyncCallRaises ==
    /\ pc \in {"power", "register_agent", "request_default_agent"}
    /\ pc' = "raised"
    /\ UNCHANGED <<adapter, adReg, appReg, agent, critical, trace>>
    /\ UNCHANGED handlerVars

\* mainloop.run(): from here on the loop dispatches replies and requests.
MainloopRun ==
    /\ Step("run", "running", "Running")
    /\ UNCHANGED <<adapter, adReg, appReg, agent, critical>>
    /\ UNCHANGED handlerVars

\* The reply handler could also be run before the loop is (mutant of
\* register_ad_cb: the reply handled inside the registration call).
register_ad_cb_sync ==
    /\ pc \in {"register_app", "request_default_agent", "run", "running"}
    /\ adReg = "pending"
    /\ adReg' = "ok"
    /\ trace' = Append(trace, "AdvertisementRegistered")
    /\ UNCHANGED <<pc, adapter, appReg, agent, critical>>
    /\ UNCHANGED handlerVars

\* register_ad_cb, run by the loop on the reply to RegisterAdvertisement.
register_ad_cb ==
    /\ pc = "running"
    /\ adReg = "pending"
    /\ adReg' = "ok"
    /\ trace' = Append(trace, "AdvertisementRegistered")
    /\ UNCHANGED <<pc, adapter, appReg, agent, critical>>
    /\ UNCHANGED handlerVars

\* register_ad_error_cb, run by the loop on an error reply: it logs and
\* calls mainloop.quit(); run() returns and main() ends.
register_ad_error_cb ==
    /\ pc = "running"
    /\ adReg = "pending"
    /\ adReg' = "failed"
    /\ LogCritical("Failed to register advertisement")
    /\ pc' = "returned"
    /\ UNCHANGED <<adapter, appReg, agent, trace>>
    /\ UNCHANGED handlerVars

\* register_app_cb, run by the loop on the reply to RegisterApplication.
register_app_cb ==
    /\ pc = "running"
    /\ appReg = "pending"
    /\ appReg' = "ok"
    /\ trace' = Append(trace, "ApplicationRegistered")
    /\ UNCHANGED <<pc, adapter, adReg, agent, critical>>
    /\ UNCHANGED handlerVars

\* The error reply to RegisterApplication.  The call was given
\* error_handler=[register_app_error_cb], a list: calling it raises
\* TypeError inside the reply dispatch, register_app_error_cb never runs,
\* and the loop goes on.
register_app_error_cb ==
    /\ pc = "running"
    /\ appReg = "pending"
    /\ appReg' = "failed"
    /\ UNCHANGED <<pc, adapter, adReg, agent, critical, trace>>
    /\ UNCHANGED handlerVars

(***************************************************************************)
(* Specifications                                                          *)
(***************************************************************************)
\* The module is loaded and the characteristic objects hold the values
\* their __init__ assigns; main() has not started.
Init ==
    /\ value = [a \in Characteristics |->
                   CASE a = FanControl -> <<255>>
                     [] a = LightControl -> <<0>>
                     [] OTHER -> <<>>]
    /\ lastValue = 0
    /\ op = NoOp
    /\ pc = "start"
    /\ adapter = "unknown"
    /\ adReg = "none"
    /\ appReg = "none"
    /\ agent = "none"
    /\ critical = {}
    /\ trace = <<>>

\* The stack calls a handler of the registered application while the loop
\* runs.
Dispatched == pc = "running" /\ appReg = "ok"

\* The whole program: main(), the registration callbacks, and the handlers
\* of the characteristics of Gr0GS1Service.
Next ==
    \/ FindAdapter
    \/ PowerOn
    \/ RegisterAgent
    \/ RegisterAdvertisement
    \/ RegisterApplication
    \/ RequestDefaultAgent
    \/ SyncCallRaises
    \/ MainloopRun
    \/ register_ad_cb
    \/ register_ad_error_cb
    \/ register_app_cb
    \/ register_app_error_cb
    \/ (Dispatched /\ LightReadValue)
    \/ (Dispatched /\ LightControlReadValue)
    \/ (Dispatched /\ LightControlWriteValue)
    \/ (Dispatched /\ TemperatureReadValue)
    \/ (Dispatched /\ TemperatureSetpointReadValue)
    \/ (Dispatched /\ TemperatureSetpointWriteValue)
    \/ (Dispatched /\ HumidityReadValue)
    \/ (Dispatched /\ HumiditySetpointReadValue)
    \/ (Dispatched /\ HumiditySetpointWriteValue)
    \/ (Dispatched /\ ReadOnlyWriteValue)

Spec == Init /\ [][Next]_vars

\* The handlers of every characteristic class, the fan one included,
\* called directly on the constructed objects.
HandlerNext ==
    \/ FanControlReadValue
    \/ FanControlWriteValue
    \/ LightReadValue
    \/ LightControlReadValue
    \/ LightControlWriteValue
    \/ TemperatureReadValue
    \/ TemperatureSetpointReadValue
    \/ TemperatureSetpointWriteValue
    \/ HumidityReadValue
    \/ HumiditySetpointReadValue
    \/ HumiditySetpointWriteValue
    \/ ReadOnlyWriteValue

HandlerSpec == Init /\ [][HandlerNext]_vars

TypeOK ==
    /\ DOMAIN value = Characteristics
    /\ lastValue \in {0, 1, 2}
    /\ pc \in {"start", "power", "register_agent", "register_ad", "register_app",
               "request_default_agent", "run", "running", "returned", "raised"}

\* The pure round trip is checked for the doubles -MaxHalf/2 .. MaxHalf/2
\* in steps of 1/2.
MaxHalf == 300

(***************************************************************************)
(* Properties                                                              *)
(***************************************************************************)
IsPrefix(s, t) == Len(s) <= Len(t) /\ s = SubSeq(t, 1, Len(s))

\* The write rules of the codecs: a fan payload must decode to one of the
\* three state names, a light-control payload must parse to 0, 1 or 2, a
\* temperature setpoint has 8 bytes and a humidity setpoint 4.
InvalidPayload(a, p) ==
    CASE a = FanControl ->
            ~Utf8Decode(p).ok \/ Utf8Decode(p).s \notin {ON, OFF, UNKNOWN}
      [] a = LightControl -> ~ParseInt(p).ok \/ ParseInt(p).i \notin {0, 1, 2}
      [] a = TemperatureSetpoint -> Len(p) # 8
      [] a = HumiditySetpoint -> Len(p) # 4
      [] OTHER -> FALSE

\* The handler passed validation and submitted a command to the backend.
Submitted(o) == o.calls # <<>> /\ o.calls[1].call = "cmd"

\* C1: a Write that passes validation and whose command submission fails
\* with a transport error returns the Failed fault and leaves self.value
\* and lastValue as they were.
C1_TransportFailureIsFailed ==
    [][(op'.kind = "write" /\ op'.backend = "fail")
        => (op'.fault = Failed /\ value' = value /\ lastValue' = lastValue)]_vars

\* C2: on the light-control characteristic, writing "0", "1" or "2" with
\* the backend accepting succeeds and sets lastValue to 0, 1 or 2; writing
\* "3" or a non-numeric payload raises NotPermitted and changes nothing.
C2_TriStateWrite ==
    [][(op'.attr = LightControl /\ op'.kind = "write")
        => /\ (op'.payload \in {<<48>>, <<49>>, <<50>>} /\ op'.backend = "ok")
                => (op'.fault = "none" /\ lastValue' = op'.payload[1] - 48)
           /\ (op'.payload = <<51>> \/ ~ParseInt(op'.payload).ok)
                => (op'.fault = NotPermitted /\ lastValue' = lastValue
                    /\ value' = value)]_vars

\* C3 as stated: a fan Write is accepted exactly when the decoded payload
\* is "ON", "OFF" or "UNKNOWN" in any letter case; every other string
\* raises NotPermitted and leaves self.value unchanged.
C3_CaseInsensitive ==
    [][(op'.attr = FanControl /\ op'.kind = "write" /\ Utf8Decode(op'.payload).ok)
        => IF Upper(Utf8Decode(op'.payload).s) \in {ON, OFF, UNKNOWN}
           THEN Submitted(op')
           ELSE ~Submitted(op') /\ op'.fault = NotPermitted /\ value' = value]_vars

\* C3 amended: a fan Write is accepted exactly when the decoded payload is
\* one of the exact strings "ON", "OFF", "UNKNOWN"; every other decodable
\* string, "on" and "Off" included, raises NotPermitted and leaves
\* self.value unchanged.
C3_ExactMembers ==
    [][(op'.attr = FanControl /\ op'.kind = "write" /\ Utf8Decode(op'.payload).ok)
        => IF Utf8Decode(op'.payload).s \in {ON, OFF, UNKNOWN}
           THEN Submitted(op')
           ELSE ~Submitted(op') /\ op'.fault = NotPermitted /\ value' = value]_vars

\* C3 witness: "on" was written to the fan characteristic and refused.
C3_Witness ==
    /\ op.attr = FanControl /\ op.kind = "write"
    /\ op.payload = <<111, 110>>
    /\ op.fault = NotPermitted

\* C4: a temperature-setpoint Write of the 8 bytes of the double v submits
\* a command whose value is v; a Write of any other length raises
\* InvalidValueLength.
C4_SetpointWrite ==
    (op.attr = TemperatureSetpoint /\ op.kind = "write")
    => /\ \A n \in {43, 44} :
            op.payload = pack_d(ByteOrder, n)
            => (Len(op.calls) = 1 /\ op.calls[1].call = "cmd"
                /\ op.calls[1].data.value = Dbl(n))
       /\ Len(op.payload) # 8 => op.fault = InvalidValueLength

\* C5: a Read made while the backend call fails raises no fault; it returns
\* the previous self.value, or the bytes of "UNKNOWN" on the fan
\* characteristic.
C5_ReadNeverFaults ==
    [][(op'.kind = "read" /\ op'.backend = "fail")
        => /\ op'.fault = "none"
           /\ op'.ret = IF op'.attr = FanControl THEN Utf8Encode(UNKNOWN)
                                                 ELSE value[op'.attr]]_vars

\* The value a Write was accepted with, in the encoding of self.value.
AcceptedValue(o) ==
    CASE o.attr = FanControl -> o.payload
      [] o.attr = LightControl -> <<ParseInt(o.payload).i>>
      [] o.attr = TemperatureSetpoint -> o.payload
      [] o.attr = HumiditySetpoint ->
            pack_d(ByteOrder, 2 * unpack_i(ByteOrder, o.payload).v)

\* What a Read of characteristic a returns while the backend is failing,
\* given the fields val (self.value of every class) and last (lastValue).
ReadFallback(a, val, last) == IF a = LightControl THEN <<last>> ELSE val[a]

\* C6: after a Write that passed validation and whose command the backend
\* accepted, the current value of the characteristic (what a Read returns
\* while the backend is failing) is the accepted value.
C6_WriteUpdatesValue ==
    [][(op'.kind = "write" /\ op'.fault = "none")
        => ReadFallback(op'.attr, value', lastValue') = AcceptedValue(op')]_vars

\* C7: a Write whose payload fails validation or decoding raises before any
\* backend call is made and changes neither self.value nor lastValue.
C7_ValidationBeforeBackend ==
    [][(op'.kind = "write" /\ InvalidPayload(op'.attr, op'.payload))
        => /\ op'.fault # "none"
           /\ op'.calls = <<>>
           /\ value' = value
           /\ lastValue' = lastValue]_vars

\* C7 witness: a Write was refused for its payload; here the 8-byte payload
\* on the humidity setpoint, which unpacks 4 bytes.
C7_Witness ==
    /\ op.kind = "write"
    /\ op.attr = HumiditySetpoint
    /\ Len(op.payload) = 8
    /\ InvalidPayload(op.attr, op.payload)
    /\ op.fault = "struct.error"

\* C8: when the advertisement or the application registration fails, a
\* critical error is logged and the event loop is stopped.
C8_RegistrationFailureStops ==
    /\ adReg = "failed"
        => ("Failed to register advertisement" \in critical /\ pc # "running")
    /\ appReg = "failed"
        => ("Failed to register application" \in critical /\ pc # "running")

\* The order of the bootstrap states as the specification lists them.
LinearOrder ==
    <<"AdapterFound", "AdapterPowered", "AdvertisementRegistering",
      "AdvertisementRegistered", "ApplicationRegistering",
      "ApplicationRegistered", "AgentRegistered", "DefaultAgentRequested",
      "Running">>

\* The order of the statements of main().
MainOrder ==
    <<"AdapterFound", "AdapterPowered", "AgentRegistered",
      "AdvertisementRegistering", "ApplicationRegistering",
      "DefaultAgentRequested", "Running">>

\* C9 as stated: every startup passes through the bootstrap states in the
\* listed linear order, each registration confirmed before the next step.
C9_LinearOrder == IsPrefix(trace, LinearOrder)

\* C9 amended: every startup passes through AdapterFound, AdapterPowered,
\* AgentRegistered, AdvertisementRegistering, ApplicationRegistering,
\* DefaultAgentRequested, Running in this order, and the two registrations
\* are confirmed, in either order, only after Running is entered.
C9_MainOrder ==
    \/ IsPrefix(trace, MainOrder \o <<"AdvertisementRegistered", "ApplicationRegistered">>)
    \/ IsPrefix(trace, MainOrder \o <<"ApplicationRegistered", "AdvertisementRegistered">>)

\* C9 witness: a startup that ran to the end, both registrations confirmed.
C9_Witness ==
    /\ Len(trace) = 9
    /\ pc = "running"
    /\ adReg = "ok" /\ appReg = "ok"

\* C10: a run in which no adapter is found never reaches Running and ends
\* without asking for the registration of the advertisement, the
\* application or the agent.
C10_NoAdapterNoRegistration ==
    adapter = "none"
    => /\ pc = "returned"
       /\ adReg = "none" /\ appReg = "none" /\ agent = "none"
       /\ trace = <<>>

\* C10 witness: main() has returned because no adapter was found.
C10_Witness == adapter = "none" /\ pc = "returned"

\* C11: on a status-backed characteristic, a Read made while the backend is
\* failing, right after a Read of the same characteristic that returned x,
\* returns x again and leaves self.value at x (so any number of consecutive
\* failing Reads after a successful one return its value); on the fan
\* characteristic every failing Read returns the bytes of "UNKNOWN".
C11_FailingReadsRepeat ==
    [][(op'.kind = "read" /\ op'.backend = "fail")
        => IF op'.attr = FanControl
           THEN op'.fault = "none" /\ op'.ret = Utf8Encode(UNKNOWN)
           ELSE (op.kind = "read" /\ op.attr = op'.attr /\ op.fault = "none")
                => /\ op'.fault = "none"
                   /\ op'.ret = op.ret
                   /\ value'[op'.attr] = op.ret]_vars

\* C12: light, temperature and humidity are declared with the read flag
\* only and define no WriteValue; a Write request on one of them submits no
\* backend command, and no Write request at all changes their self.value.
C12_ReadOnlyNeverWritten ==
    /\ \A a \in {Light, Temperature, Humidity} :
            Flags[a] = {"read"} /\ a \notin Writable
    /\ [][op'.kind = "write"
            => /\ \A a \in {Light, Temperature, Humidity} : value'[a] = value[a]
               /\ op'.attr \in {Light, Temperature, Humidity}
                    => (op'.calls = <<>> /\ op'.fault # "none"
                        /\ value' = value /\ lastValue' = lastValue)]_vars

\* C12 witness: a Write request was made on the light characteristic while
\* it held a value read from the backend.
C12_Witness ==
    /\ op.kind = "write"
    /\ op.attr = Light
    /\ value[Light] # <<>>

\* C13: the 8 bytes a successful Read of the temperature setpoint returned
\* for the backend value v, written back unchanged to the same
\* characteristic, are accepted and submit a command whose value is v;
\* packing a double and unpacking the 8 bytes gives the double back.
C13_SetpointRoundTrip ==
    /\ \A n \in (0 - MaxHalf)..MaxHalf :
            unpack_d(ByteOrder, pack_d(ByteOrder, n)) = [ok |-> TRUE, v |-> Dbl(n)]
    /\ [][(/\ op.attr = TemperatureSetpoint /\ op.kind = "read" /\ op.backend = "ok"
           /\ op'.attr = TemperatureSetpoint /\ op'.kind = "write"
           /\ op'.payload = op.ret)
            => /\ Submitted(op')
               /\ Len(op'.calls) = 1
               /\ op'.calls[1].data.cmd = "temperature_setpoint"
               /\ op'.calls[1].data.value = op.reported[1]]_vars

\* C13 witness: the bytes the temperature setpoint holds from a Read of
\* 22.0 were written back and a command was submitted.
C13_Witness ==
    /\ op.attr = TemperatureSetpoint /\ op.kind = "write"
    /\ value[TemperatureSetpoint] = pack_d(ByteOrder, 44)
    /\ op.payload = value[TemperatureSetpoint]
    /\ Submitted(op)

\* The backend commands among the calls of a handler.
Commands(o) == SelectSeq(o.calls, LAMBDA c : c.call = "cmd")

\* C14: a Write on a writable characteristic submits exactly one backend
\* command when its payload passes validation, whether the submission
\* succeeds or fails, and none when validation fails; a Read submits none.
C14_OneCommandPerWrite ==
    /\ (op.kind = "write" /\ op.attr \in Writable)
        => IF InvalidPayload(op.attr, op.payload)
           THEN op.calls = <<>>
           ELSE Len(op.calls) = 1 /\ Len(Commands(op)) = 1
    /\ op.kind = "read" => Commands(op) = <<>>

\* C14 witness: a validated Write whose submission failed, with its one
\* command.
C14_Witness ==
    /\ op.kind = "write" /\ op.attr = TemperatureSetpoint
    /\ op.backend = "fail"
    /\ Len(Commands(op)) = 1

\* C15: in every reachable state self.value of light, temperature,
\* humidity and the two setpoints is exactly 8 bytes long, and every Read
\* of one of them returns exactly 8 bytes.
C15_AlwaysEightBytes ==
    \A a \in FloatRead :
        /\ Len(value[a]) = 8
        /\ (op.kind = "read" /\ op.attr = a) => Len(op.ret) = 8

\* op is a Write on the light-control characteristic that was accepted:
\* it passed validation and its command was taken by the backend.
AcceptedLightWrite(o) ==
    o.attr = LightControl /\ o.kind = "write" /\ o.fault = "none"

\* C16: lastValue is 0 until a Write is accepted, every accepted Write sets
\* it to the written value and nothing else changes it; a Read of the
\* light-control characteristic returns the single byte lastValue, which
\* is 0, 1 or 2, and makes no backend call.
C16_ReadReturnsLastAccepted ==
    /\ lastValue = 0
    /\ [][/\ IF AcceptedLightWrite(op') /\ op' # op
             THEN lastValue' = ParseInt(op'.payload).i
             ELSE lastValue' = lastValue
          /\ (op'.attr = LightControl /\ op'.kind = "read")
                => /\ op'.fault = "none"
                   /\ op'.ret = <<lastValue'>>
                   /\ op'.ret[1] \in {0, 1, 2}
                   /\ op'.calls = <<>>]_vars

\* C16 witness: a Read returned 2 after "2" was written and accepted.
C16_Witness ==
    /\ op.attr = LightControl /\ op.kind = "read"
    /\ op.ret = <<2>>

\* C17: a Read or Write on one characteristic, whatever its outcome, leaves
\* self.value of every other characteristic unchanged, and leaves
\* lastValue unchanged unless it is made on the light-control
\* characteristic.
C17_OtherAttributesUntouched ==
    [][/\ \A a \in Characteristics : a # op'.attr => value'[a] = value[a]
       /\ op'.attr # LightControl => lastValue' = lastValue]_vars

\* C17 witness: a Read of the humidity setpoint got a value from the backend
\* while the temperature setpoint and the light state held values of
\* their own.
C17_Witness ==
    /\ op.attr = HumiditySetpoint /\ op.kind = "read" /\ op.backend = "ok"
    /\ value[TemperatureSetpoint] = pack_d(ByteOrder, 43)
    /\ lastValue = 2

\* C18: a successful Read of light, temperature, humidity or a setpoint
\* makes exactly one status call and returns, and stores, the 8-byte
\* native-order double image of the value the backend reported in that
\* call; a backend light of 42.0 gives 00 00 00 00 00 00 45 40.
C18_ReadIsFresh ==
    (op.kind = "read" /\ op.attr \in FloatRead /\ op.backend = "ok")
    => /\ op.calls = <<StatusCall("rpc")>>
       /\ op.fault = "none"
       /\ Len(op.reported) = 1
       /\ Len(op.ret) = 8
       /\ unpack_d(ByteOrder, op.ret).v = op.reported[1]
       /\ value[op.attr] = op.ret
       /\ (op.attr = Light /\ op.reported = <<Dbl(84)>>)
            => op.ret = <<0, 0, 0, 0, 0, 0, 69, 64>>

\* C18 witness: the backend reported light 42.0 and the Read returned it.
C18_Witness ==
    /\ op.kind = "read" /\ op.attr = Light /\ op.backend = "ok"
    /\ op.reported = <<Dbl(84)>>
    /\ op.ret = <<0, 0, 0, 0, 0, 0, 69, 64>>

====
